---- MODULE Spec2Model ----
(***************************************************************************)
(* A model of fstools-rs  format/src/flver/vertex_buffer.rs :              *)
(*   - VertexAttributeIter<T>: a strided cursor over one attribute of an   *)
(*     interleaved vertex buffer (new, next, size_hint);                   *)
(*   - VertexAttributeFormat / VertexAttributeSemantic: the tag            *)
(*     classifiers and the datum_size / dimensions lookups;                *)
(*   - VertexAttributeAccessor: the element shape bound to each format.    *)
(*                                                                         *)
(* A Rust slice &[u8] is a (pointer, length) pair; it is modelled as the   *)
(* record [ptr, len] where ptr is the slice's byte offset from the start   *)
(* of the caller-owned buffer  mem , whose first byte lives at address     *)
(* base .  A panic is an outcome [kind |-> "Panic", msg |-> ...]; the      *)
(* call that panics leaves the cursor as it was.                           *)
(***************************************************************************)
EXTENDS Integers, Sequences, FiniteSets, TLC

\* ---------------------------------------------------------------- bounds
\* Longest caller-owned buffer, in bytes.
MaxLen == 9
\* Largest vertex_size (stride) handed to new.
MaxStride == 5
\* Largest vertex_offset handed to new.
MaxOffset == 3
\* Number of distinct byte fillings tried for each buffer length.
MaxSeed == 1
\* Buffer length, stride, offset and cursor count of the shared-buffer
\* specification.
MaxSharedLen == 3
MaxSharedStride == 2
MaxSharedOffset == 1
NumIters == 2
\* Largest format_id / semantic_id (u32) drawn.
MaxFormatTag == 241
MaxSemanticTag == 12

VARIABLES
    mem,     \* the caller-owned byte buffer (1-indexed sequence of u8)
    base,    \* the address of mem's first byte
    iters,   \* sequence of VertexAttributeIter records
    ret,     \* per cursor: the outcome of its last next() call
    items,   \* per cursor: the items its next() calls have yielded so far
    reads,   \* per cursor: offsets into mem dereferenced by its last next()
    attr,    \* a VertexBufferAttribute record (format_id, semantic_id)
    fmt,     \* outcome of the last attr.format() call
    sem,     \* outcome of the last attr.semantic() call
    geom     \* outcomes of datum_size() / dimensions() on the classified format

vars == <<mem, base, iters, ret, items, reads, attr, fmt, sem, geom>>
iterVars == <<mem, base, iters, ret, items, reads>>
classVars == <<attr, fmt, sem, geom>>

\* ------------------------------------------------------------- outcomes
NotCalled == [kind |-> "NotCalled"]
None == [kind |-> "None"]
Some(v) == [kind |-> "Some", value |-> v]
Ok(v) == [kind |-> "Ok", value |-> v]
Panic(m) == [kind |-> "Panic", msg |-> m]

\* ------------------------------------------------ element shapes (T: Pod)
\* size_of::<T>() and align_of::<T>() of the element shapes T a cursor is
\* instantiated with.
PodShapes ==
    { [name |-> "u8", size |-> 1, align |-> 1],
      [name |-> "[u8; 2]", size |-> 2, align |-> 1],
      [name |-> "u16", size |-> 2, align |-> 2],
      [name |-> "[u8; 4]", size |-> 4, align |-> 1],
      [name |-> "[u16; 2]", size |-> 4, align |-> 2],
      [name |-> "f32", size |-> 4, align |-> 4] }

size_of(T) == T.size
align_of(T) == T.align

\* ------------------------------------------------------- slices of mem
\* &mem[..]
FullSlice(b) == [ptr |-> 0, len |-> Len(b)]

\* <[u8]>::is_empty
is_empty(s) == s.len = 0

\* &s[a..b] : Index<Range<usize>>
IndexRange(s, a, b) ==
    IF a > b THEN Panic("slice index starts after its end")
    ELSE IF b > s.len THEN Panic("range end index out of range")
    ELSE Ok([ptr |-> s.ptr + a, len |-> b - a])

\* &s[a..] : Index<RangeFrom<usize>>
IndexRangeFrom(s, a) ==
    IF a > s.len THEN Panic("range start index out of range")
    ELSE Ok([ptr |-> s.ptr + a, len |-> s.len - a])

\* The bytes a slice views.
BytesOf(s) == [k \in 1..s.len |-> mem[s.ptr + k]]

\* bytemuck::from_bytes::<T>(s): a reference to T at the slice's address, or a
\* panic when the length is not size_of::<T>() or the address is not aligned
\* for T.
from_bytes(s, T) ==
    IF s.len # size_of(T) THEN Panic("from_bytes>SizeMismatch")
    ELSE IF (base + s.ptr) % align_of(T) # 0
         THEN Panic("from_bytes>TargetAlignmentGreaterAndInputNotAligned")
    ELSE Ok(s)

\* *data : the copy of the T value behind the reference (its object
\* representation, native byte order).
Deref(r) == BytesOf(r)

\* ------------------------------------------------- VertexAttributeIter
\* VertexAttributeIter::<T>::new(buffer, vertex_size, vertex_offset)
new(buffer, vertex_size, vertex_offset, T) ==
    [ buffer |-> buffer,
      attribute_data_offset |-> vertex_offset,
      attribute_data_end |-> vertex_offset + size_of(T),
      vertex_size |-> vertex_size,
      T |-> T ]

\* Mutant of Window: a window that runs past the remaining buffer is cut to the
\* bytes that are left instead of being refused.
Window_Clamped(self) ==
    IF self.attribute_data_offset > self.buffer.len
    THEN Panic("range start index out of range")
    ELSE IF self.attribute_data_end > self.buffer.len
    THEN Ok([ ptr |-> self.buffer.ptr + self.attribute_data_offset,
              len |-> self.buffer.len - self.attribute_data_offset ])
    ELSE IndexRange(self.buffer, self.attribute_data_offset,
                    self.attribute_data_end)

\* &self.buffer[self.attribute_data_offset..self.attribute_data_end]
Window(self) ==
    IndexRange(self.buffer, self.attribute_data_offset, self.attribute_data_end)

\* Mutant of Advance: the cursor skips the element it has read, not the whole
\* vertex record.
Advance_ByElement(self) == IndexRangeFrom(self.buffer, self.attribute_data_end)

\* &self.buffer[self.vertex_size..]
Advance(self) == IndexRangeFrom(self.buffer, self.vertex_size)

\* One call of Iterator::next on the cursor self: the value returned (or the
\* panic), the cursor's remaining buffer afterwards, and the offsets of mem
\* dereferenced.
NextStep(self) ==
    IF is_empty(self.buffer)
    THEN [ret |-> None, buffer |-> self.buffer, read |-> {}]
    ELSE LET attribute_byte_data == Window(self)
         IN  IF attribute_byte_data.kind = "Panic"
             THEN [ret |-> attribute_byte_data, buffer |-> self.buffer, read |-> {}]
             ELSE LET data == from_bytes(attribute_byte_data.value, self.T)
                  IN  IF data.kind = "Panic"
                      THEN [ret |-> data, buffer |-> self.buffer, read |-> {}]
                      ELSE LET rest == Advance(self)
                           IN  IF rest.kind = "Panic"
                               THEN [ret |-> rest, buffer |-> self.buffer, read |-> {}]
                               ELSE [ ret |-> Some(Deref(data.value)),
                                      buffer |-> rest.value,
                                      read |-> { data.value.ptr + k :
                                                   k \in 0..(data.value.len - 1) } ]

\* Iterator::size_hint
size_hint(self) ==
    IF self.vertex_size = 0 THEN Panic("attempt to divide by zero")
    ELSE LET remaining == self.buffer.len \div self.vertex_size
         IN  Ok([lower |-> remaining, upper |-> Some(remaining)])

Cursors == DOMAIN iters

\* The model follows a cursor until it has yielded one item more than the
\* buffer has bytes.
MaxItems == Len(mem) + 1

\* Mutant of next: the cursors share one remaining buffer, so a call on one
\* moves them all.
next_SharedCursor(i) ==
    /\ ret[i].kind # "Panic"
    /\ Len(items[i]) < MaxItems
    /\ LET step == NextStep(iters[i])
       IN  /\ iters' = [j \in Cursors |-> [iters[j] EXCEPT !.buffer = step.buffer]]
           /\ ret' = [ret EXCEPT ![i] = step.ret]
           /\ reads' = [reads EXCEPT ![i] = step.read]
           /\ items' = IF step.ret.kind = "Some"
                       THEN [items EXCEPT ![i] = Append(@, step.ret.value)]
                       ELSE items
    /\ UNCHANGED <<mem, base, classVars>>

\* The caller invokes next() on cursor i.  A panic unwinds the caller, which
\* makes no further call on that cursor.
next(i) ==
    /\ ret[i].kind # "Panic"
    /\ Len(items[i]) < MaxItems
    /\ LET step == NextStep(iters[i])
       IN  /\ iters' = [iters EXCEPT ![i].buffer = step.buffer]
           /\ ret' = [ret EXCEPT ![i] = step.ret]
           /\ reads' = [reads EXCEPT ![i] = step.read]
           /\ items' = IF step.ret.kind = "Some"
                       THEN [items EXCEPT ![i] = Append(@, step.ret.value)]
                       ELSE items
    /\ UNCHANGED <<mem, base, classVars>>

\* --------------------------------------------------------------- inputs
Pattern(n, s) == [k \in 1..n |-> (s + 37 * k) % 256]
Buffers == { Pattern(n, s) : n \in 0..MaxLen, s \in 0..MaxSeed }

\* The buffer may start at any address; only its residue modulo the largest
\* alignment of the element shapes matters.
MaxAlign(shapes) == CHOOSE a \in { align_of(T) : T \in shapes } :
                        \A T \in shapes : align_of(T) <= a
Addresses == 0..(MaxAlign(PodShapes) - 1)

IdleAttr == [format_id |-> 0, semantic_id |-> 0]

ClassIdle ==
    /\ attr = IdleAttr
    /\ fmt = NotCalled
    /\ sem = NotCalled
    /\ geom = [datum_size |-> NotCalled, dimensions |-> NotCalled]

\* One cursor over a buffer of any length, stride, offset and element shape.
InitIter ==
    /\ \E b \in Buffers, a \in Addresses, vs \in 0..MaxStride,
          off \in 0..MaxOffset, T \in PodShapes :
          /\ mem = b
          /\ base = a
          /\ iters = << new(FullSlice(b), vs, off, T) >>
    /\ ret = << NotCalled >>
    /\ items = << <<>> >>
    /\ reads = << {} >>
    /\ ClassIdle

NextIter == \E i \in Cursors : next(i)

SpecIter == InitIter /\ [][NextIter]_vars

\* Several cursors over one buffer, their next() calls interleaved.
SharedShapes == { T \in PodShapes : T.name \in {"u8", "u16"} }
SharedAddresses == 0..(MaxAlign(SharedShapes) - 1)
SharedConfigs ==
    [ vertex_size : 0..MaxSharedStride,
      vertex_offset : 0..MaxSharedOffset,
      T : SharedShapes ]

\* The cursors are interchangeable: their configurations are drawn in one
\* order only (by stride, then offset, then element size).
ConfigLeq(c, d) ==
    \/ c.vertex_size < d.vertex_size
    \/ /\ c.vertex_size = d.vertex_size
       /\ \/ c.vertex_offset < d.vertex_offset
          \/ /\ c.vertex_offset = d.vertex_offset
             /\ size_of(c.T) <= size_of(d.T)

InitShared ==
    /\ \E n \in 0..MaxSharedLen, a \in SharedAddresses,
          cfg \in [1..NumIters -> SharedConfigs] :
          /\ \A i \in 1..(NumIters - 1) : ConfigLeq(cfg[i], cfg[i + 1])
          /\ mem = Pattern(n, 0)
          /\ base = a
          /\ iters = [ i \in 1..NumIters |->
                         new(FullSlice(Pattern(n, 0)), cfg[i].vertex_size,
                             cfg[i].vertex_offset, cfg[i].T) ]
    /\ ret = [i \in 1..NumIters |-> NotCalled]
    /\ items = [i \in 1..NumIters |-> <<>>]
    /\ reads = [i \in 1..NumIters |-> {}]
    /\ ClassIdle

SpecShared == InitShared /\ [][NextIter]_vars

\* ------------------------------------------------ VertexAttributeFormat
\* The enum's variants and their #[repr(u32)] discriminants.
VertexAttributeFormat ==
    [ Float2 |-> 1, Float3 |-> 2, Float4 |-> 3,
      Byte4A |-> 16, Byte4B |-> 17, Short2ToFloat2 |-> 18,
      Byte4C |-> 19, UV |-> 21, UVPair |-> 22,
      ShortBoneIndices |-> 24, Short4ToFloat4A |-> 26,
      Short4ToFloat4B |-> 46, Byte4E |-> 47, EdgeCompressed |-> 240 ]

FormatVariants == DOMAIN VertexAttributeFormat

\* Mutant of FormatFrom: the arms of Short4ToFloat4B (0x2E) and Byte4E (0x2F)
\* are swapped.
FormatFrom_Swapped(value) ==
    CASE value = 1 -> Ok("Float2")
      [] value = 2 -> Ok("Float3")
      [] value = 3 -> Ok("Float4")
      [] value = 16 -> Ok("Byte4A")
      [] value = 17 -> Ok("Byte4B")
      [] value = 18 -> Ok("Short2ToFloat2")
      [] value = 19 -> Ok("Byte4C")
      [] value = 21 -> Ok("UV")
      [] value = 22 -> Ok("UVPair")
      [] value = 24 -> Ok("ShortBoneIndices")
      [] value = 26 -> Ok("Short4ToFloat4A")
      [] value = 46 -> Ok("Byte4E")
      [] value = 47 -> Ok("Short4ToFloat4B")
      [] value = 240 -> Ok("EdgeCompressed")
      [] OTHER -> Panic(<<"Unknown storage type", value>>)

\* <VertexAttributeFormat as From<u32>>::from
FormatFrom(value) ==
    CASE value = 1 -> Ok("Float2")
      [] value = 2 -> Ok("Float3")
      [] value = 3 -> Ok("Float4")
      [] value = 16 -> Ok("Byte4A")
      [] value = 17 -> Ok("Byte4B")
      [] value = 18 -> Ok("Short2ToFloat2")
      [] value = 19 -> Ok("Byte4C")
      [] value = 21 -> Ok("UV")
      [] value = 22 -> Ok("UVPair")
      [] value = 24 -> Ok("ShortBoneIndices")
      [] value = 26 -> Ok("Short4ToFloat4A")
      [] value = 46 -> Ok("Short4ToFloat4B")
      [] value = 47 -> Ok("Byte4E")
      [] value = 240 -> Ok("EdgeCompressed")
      [] OTHER -> Panic(<<"Unknown storage type", value>>)

\* Mutant of datum_size: the wildcard arm returns 0 instead of failing.
datum_size_ZeroDefault(f) ==
    CASE f \in {"Float2", "Float3", "Float4", "UV", "UVPair"} -> Ok(4)
      [] f \in {"Byte4A", "Byte4B", "Byte4C", "Byte4E"} -> Ok(1)
      [] f \in {"Short2ToFloat2", "ShortBoneIndices", "Short4ToFloat4A",
                "Short4ToFloat4B"} -> Ok(2)
      [] OTHER -> Ok(0)

\* VertexAttributeFormat::datum_size
datum_size(f) ==
    CASE f \in {"Float2", "Float3", "Float4", "UV", "UVPair"} -> Ok(4)
      [] f \in {"Byte4A", "Byte4B", "Byte4C", "Byte4E"} -> Ok(1)
      [] f \in {"Short2ToFloat2", "ShortBoneIndices", "Short4ToFloat4A",
                "Short4ToFloat4B"} -> Ok(2)
      [] OTHER -> Panic("not implemented")

\* Mutant of dimensions: Short2ToFloat2 is given the 4 components of the
\* other short formats.
dimensions_Short2As4(f) ==
    CASE f = "Float2" -> Ok(2)
      [] f = "Float3" -> Ok(3)
      [] f = "Float4" -> Ok(4)
      [] f = "Byte4A" -> Ok(4)
      [] f = "Byte4B" -> Ok(4)
      [] f = "Short2ToFloat2" -> Ok(4)
      [] f = "Byte4C" -> Ok(4)
      [] f = "UV" -> Ok(2)
      [] f = "UVPair" -> Ok(4)
      [] f = "ShortBoneIndices" -> Ok(4)
      [] f = "Short4ToFloat4A" -> Ok(4)
      [] f = "Short4ToFloat4B" -> Ok(4)
      [] f = "Byte4E" -> Ok(4)
      [] f = "EdgeCompressed" -> Panic("not implemented")

\* VertexAttributeFormat::dimensions
dimensions(f) ==
    CASE f = "Float2" -> Ok(2)
      [] f = "Float3" -> Ok(3)
      [] f = "Float4" -> Ok(4)
      [] f = "Byte4A" -> Ok(4)
      [] f = "Byte4B" -> Ok(4)
      [] f = "Short2ToFloat2" -> Ok(2)
      [] f = "Byte4C" -> Ok(4)
      [] f = "UV" -> Ok(2)
      [] f = "UVPair" -> Ok(4)
      [] f = "ShortBoneIndices" -> Ok(4)
      [] f = "Short4ToFloat4A" -> Ok(4)
      [] f = "Short4ToFloat4B" -> Ok(4)
      [] f = "Byte4E" -> Ok(4)
      [] f = "EdgeCompressed" -> Panic("not implemented")

\* ---------------------------------------------- VertexAttributeSemantic
\* Mutant of SemanticFrom: the tags are taken to be consecutive, so the
\* reserved tag 4 classifies as UV.
SemanticFrom_Consecutive(value) ==
    CASE value = 0 -> Ok("Position")
      [] value = 1 -> Ok("BoneWeights")
      [] value = 2 -> Ok("BoneIndices")
      [] value = 3 -> Ok("Normal")
      [] value = 4 -> Ok("UV")
      [] value = 5 -> Ok("UV")
      [] value = 6 -> Ok("Tangent")
      [] value = 7 -> Ok("Bitangent")
      [] value = 10 -> Ok("VertexColor")
      [] OTHER -> Panic(<<"Unknown member type", value>>)

\* <VertexAttributeSemantic as From<u32>>::from
SemanticFrom(value) ==
    CASE value = 0 -> Ok("Position")
      [] value = 1 -> Ok("BoneWeights")
      [] value = 2 -> Ok("BoneIndices")
      [] value = 3 -> Ok("Normal")
      [] value = 5 -> Ok("UV")
      [] value = 6 -> Ok("Tangent")
      [] value = 7 -> Ok("Bitangent")
      [] value = 10 -> Ok("VertexColor")
      [] OTHER -> Panic(<<"Unknown member type", value>>)

\* ---------------------------------------------- VertexAttributeAccessor
\* The element shape T = [scalar; count] of each accessor variant's iterator.
VertexAttributeAccessor ==
    [ Float2 |-> [scalar |-> "f32", count |-> 2],
      Float3 |-> [scalar |-> "f32", count |-> 3],
      Float4 |-> [scalar |-> "f32", count |-> 4],
      Byte4A |-> [scalar |-> "u8", count |-> 4],
      Byte4B |-> [scalar |-> "u8", count |-> 4],
      Short2ToFloat2 |-> [scalar |-> "u16", count |-> 2],
      Byte4C |-> [scalar |-> "u8", count |-> 4],
      UV |-> [scalar |-> "f32", count |-> 2],
      UVPair |-> [scalar |-> "f32", count |-> 2],
      Short4ToFloat4A |-> [scalar |-> "u16", count |-> 4],
      Short4ToFloat4B |-> [scalar |-> "u16", count |-> 4] ]

\* size_of::<[scalar; count]>()
ScalarSize(t) == CASE t = "u8" -> 1 [] t = "u16" -> 2 [] t = "f32" -> 4
AccessorElementSize(v) ==
    ScalarSize(VertexAttributeAccessor[v].scalar) * VertexAttributeAccessor[v].count

\* ------------------------------------------------ VertexBufferAttribute
\* VertexBufferAttribute::format
format ==
    /\ fmt' = FormatFrom(attr.format_id)
    /\ UNCHANGED <<attr, sem, geom, iterVars>>

\* VertexBufferAttribute::semantic
semantic ==
    /\ sem' = SemanticFrom(attr.semantic_id)
    /\ UNCHANGED <<attr, fmt, geom, iterVars>>

\* datum_size() called on the classified format.
DatumSize ==
    /\ fmt.kind = "Ok"
    /\ geom' = [geom EXCEPT !.datum_size = datum_size(fmt.value)]
    /\ UNCHANGED <<attr, fmt, sem, iterVars>>

\* dimensions() called on the classified format.
Dimensions ==
    /\ fmt.kind = "Ok"
    /\ geom' = [geom EXCEPT !.dimensions = dimensions(fmt.value)]
    /\ UNCHANGED <<attr, fmt, sem, iterVars>>

\* An attribute record with any format_id and semantic_id; no cursor.
InitClassify ==
    /\ attr \in [format_id : 0..MaxFormatTag, semantic_id : 0..MaxSemanticTag]
    /\ fmt = NotCalled
    /\ sem = NotCalled
    /\ geom = [datum_size |-> NotCalled, dimensions |-> NotCalled]
    /\ mem = <<>>
    /\ base = 0
    /\ iters = <<>>
    /\ ret = <<>>
    /\ items = <<>>
    /\ reads = <<>>

NextClassify == format \/ semantic \/ DatumSize \/ Dimensions

SpecClassify == InitClassify /\ [][NextClassify]_vars

\* ======================================================================
\* Properties of VertexAttributeIter
\* ======================================================================
\* The construction-time parameters of cursor i.
Stride(i) == iters[i].vertex_size
Offset(i) == iters[i].attribute_data_offset
ElemSize(i) == size_of(iters[i].T)
\* The buffer holds a whole number of vertex records of the cursor's stride.
WholeRecords(i) == Stride(i) >= 1 /\ Len(mem) % Stride(i) = 0
VertexCount(i) == Len(mem) \div Stride(i)
\* The element lies inside one vertex record.
InRange(i) == Offset(i) + ElemSize(i) <= Stride(i)
\* Every element of the cursor sits at an address aligned for T.
Aligned(i) ==
    /\ (base + Offset(i)) % align_of(iters[i].T) = 0
    /\ Stride(i) % align_of(iters[i].T) = 0

\* The number of items further next() calls yield from the cursor state self.
RECURSIVE FutureYield(_, _)
FutureYield(self, fuel) ==
    IF fuel = 0 THEN 0
    ELSE LET step == NextStep(self)
         IN  IF step.ret.kind = "Some"
             THEN 1 + FutureYield([self EXCEPT !.buffer = step.buffer], fuel - 1)
             ELSE 0

\* C1: over a buffer of vertex_count whole records (vertex_size >= 1) and with
\* an in-range vertex_offset, next() never fails, yields exactly vertex_count
\* items, and returns None only after them (at once when vertex_count = 0).
C1_YieldsVertexCount ==
    \A i \in Cursors :
        (WholeRecords(i) /\ InRange(i)) =>
            /\ ret[i].kind # "Panic"
            /\ Len(items[i]) <= VertexCount(i)
            /\ (ret[i].kind = "None" => Len(items[i]) = VertexCount(i))
            /\ (Len(items[i]) = VertexCount(i) => is_empty(iters[i].buffer))

\* The same statement restricted to cursors whose elements are all aligned for
\* T: it holds, so misalignment is the only way C1 fails.
AlignedYieldsVertexCount ==
    \A i \in Cursors :
        (WholeRecords(i) /\ InRange(i) /\ Aligned(i)) =>
            /\ ret[i].kind # "Panic"
            /\ Len(items[i]) <= VertexCount(i)
            /\ (ret[i].kind = "None" => Len(items[i]) = VertexCount(i))
            /\ (Len(items[i]) = VertexCount(i) => is_empty(iters[i].buffer))

\* C2: in every reachable state, for any buffer length and any vertex_size,
\* size_hint() returns (r, Some(r)) with r the floor of remaining bytes over
\* vertex_size, and r is the number of items further next() calls yield.
C2_SizeHintExact ==
    \A i \in Cursors :
        LET h == size_hint(iters[i])
        IN  /\ h.kind = "Ok"
            /\ h.value.upper = Some(h.value.lower)
            /\ h.value.lower * Stride(i) <= iters[i].buffer.len
            /\ iters[i].buffer.len < (h.value.lower + 1) * Stride(i)
            /\ h.value.lower = FutureYield(iters[i], MaxItems)

\* The elements of mem that make up the k-th item (k = 0, 1, ...) of cursor i.
ItemOffsets(i, k) ==
    { k * Stride(i) + Offset(i) + j : j \in 0..(ElemSize(i) - 1) }
ItemBytes(i, k) ==
    [ j \in 1..ElemSize(i) |-> mem[k * Stride(i) + Offset(i) + j] ]

\* C3: over whole records with an in-range offset, the k-th item yielded is
\* the bytes [k*vertex_size + vertex_offset, ... + size_of(T)) of the original
\* buffer, the call that yields it dereferences those bytes and no other, and
\* after n items the remaining buffer starts exactly n*vertex_size bytes in.
C3_ItemWindow ==
    \A i \in Cursors :
        (WholeRecords(i) /\ InRange(i)) =>
            LET n == Len(items[i])
            IN  /\ \A k \in 1..n : items[i][k] = ItemBytes(i, k - 1)
                /\ (ret[i].kind = "Some" => reads[i] = ItemOffsets(i, n - 1))
                /\ iters[i].buffer =
                       [ptr |-> n * Stride(i), len |-> Len(mem) - n * Stride(i)]

\* Witness of C3: a cursor with a non-zero offset and a stride larger than its
\* element has yielded its third item.
C3_Witness ==
    \E i \in Cursors :
        /\ WholeRecords(i) /\ InRange(i)
        /\ Offset(i) > 0
        /\ Stride(i) > Offset(i) + ElemSize(i)
        /\ Len(items[i]) = 3
        /\ ret[i].kind = "Some"

\* C4: for every buffer and every vertex_size new accepts (vertex_size = 0
\* included) the cursor is finite: it yields at most buffer.len()/vertex_size
\* items, never more items than the buffer has bytes, and next() returns None
\* only in the exhausted state (remaining buffer empty).
C4_Finite ==
    \A i \in Cursors :
        /\ Stride(i) >= 1 => Len(items[i]) * Stride(i) <= Len(mem)
        /\ Len(items[i]) <= Len(mem)
        /\ (ret[i].kind = "None" => is_empty(iters[i].buffer))

\* A step in which next() was called on cursor i and returned or panicked.
Called(i) == ret'[i] # ret[i] \/ items'[i] # items[i]
\* Before the call, the element window runs past the remaining buffer.
WindowExceeds(i) == Offset(i) + ElemSize(i) > iters[i].buffer.len
\* The offsets of mem the remaining buffer covers before the call.
RemainingOffsets(i) ==
    { iters[i].buffer.ptr + j : j \in 0..(iters[i].buffer.len - 1) }
\* An item the call yields is size_of(T) bytes read inside the remaining buffer.
YieldsWholeItem(i) ==
    items'[i] # items[i] =>
        /\ ret'[i].kind = "Some"
        /\ items'[i] = Append(items[i], ret'[i].value)
        /\ Len(ret'[i].value) = ElemSize(i)
        /\ Cardinality(reads'[i]) = ElemSize(i)
        /\ reads'[i] \subseteq RemainingOffsets(i)
        /\ ~WindowExceeds(i)

\* C5 as stated: whenever the element window runs past the remaining buffer,
\* next() fails with a bounds error and yields no item; and no item is built
\* from fewer than size_of(T) bytes or from bytes outside the remaining buffer.
C5_Original ==
    [][ \A i \in Cursors :
          Called(i) =>
            /\ WindowExceeds(i) =>
                  /\ ret'[i] = Panic("range end index out of range")
                  /\ items'[i] = items[i]
            /\ YieldsWholeItem(i) ]_vars

\* C5 amended: whenever the remaining buffer is not empty and the element
\* window runs past it, next() fails with a bounds error and yields no item;
\* on an empty remaining buffer next() returns None; and no item is built from
\* fewer than size_of(T) bytes or from bytes outside the remaining buffer.
C5_BoundsError ==
    [][ \A i \in Cursors :
          Called(i) =>
            /\ (WindowExceeds(i) /\ ~is_empty(iters[i].buffer)) =>
                  /\ ret'[i] = Panic("range end index out of range")
                  /\ items'[i] = items[i]
                  /\ iters'[i] = iters[i]
            /\ is_empty(iters[i].buffer) =>
                  /\ ret'[i] = None
                  /\ items'[i] = items[i]
            /\ YieldsWholeItem(i) ]_vars

\* Witness of C5: after yielding an item, next() found a non-empty remaining
\* buffer too short for the element window and failed with the bounds error.
C5_Witness ==
    \E i \in Cursors :
        /\ ret[i] = Panic("range end index out of range")
        /\ Len(items[i]) >= 1
        /\ ~is_empty(iters[i].buffer)
        /\ Offset(i) + ElemSize(i) > iters[i].buffer.len

\* ======================================================================
\* Properties of cursors sharing a buffer
\* ======================================================================
\* The items cursor self yields when it alone is run until next() stops
\* yielding.
RECURSIVE AloneItems(_, _)
AloneItems(self, fuel) ==
    IF fuel = 0 THEN <<>>
    ELSE LET step == NextStep(self)
         IN  IF step.ret.kind = "Some"
             THEN <<step.ret.value>> \o
                  AloneItems([self EXCEPT !.buffer = step.buffer], fuel - 1)
             ELSE <<>>

\* Cursor i as it was built: over the whole buffer.
AsBuilt(i) == [iters[i] EXCEPT !.buffer = FullSlice(mem)]

IsPrefix(s, t) == Len(s) <= Len(t) /\ \A k \in 1..Len(s) : s[k] = t[k]

\* A step changes nothing but the remaining buffer, last outcome, yielded items
\* and last reads of one cursor i.
OnlyCursorMoves(i) ==
    /\ mem' = mem
    /\ base' = base
    /\ DOMAIN iters' = DOMAIN iters
    /\ iters'[i] = [iters[i] EXCEPT !.buffer = iters'[i].buffer]
    /\ \A j \in Cursors \ {i} :
          /\ iters'[j] = iters[j]
          /\ ret'[j] = ret[j]
          /\ items'[j] = items[j]
          /\ reads'[j] = reads[j]

\* C10: with several cursors over one buffer and their next() calls
\* interleaved in any order, a call on one cursor changes only that cursor's
\* remaining buffer (not the bytes, not its own offset, element length or
\* stride, not any other cursor), and each cursor yields the item sequence it
\* yields when run alone.
C10_Independent ==
    /\ [][\E i \in Cursors : OnlyCursorMoves(i)]_vars
    /\ [](\A i \in Cursors :
            /\ IsPrefix(items[i], AloneItems(AsBuilt(i), MaxItems))
            /\ (ret[i].kind \in {"None", "Panic"} =>
                   items[i] = AloneItems(AsBuilt(i), MaxItems)))

\* Witness of C10: two cursors with different offsets have both yielded items
\* from the same buffer and stand at different places in it.
C10_Witness ==
    \E i, j \in Cursors :
        /\ Offset(i) # Offset(j)
        /\ Len(items[i]) >= 2
        /\ Len(items[j]) >= 1
        /\ iters[i].buffer.ptr > iters[j].buffer.ptr
        /\ iters[j].buffer.ptr > 0

\* ======================================================================
\* Properties of the classifiers
\* ======================================================================
\* The 14 defined format tags.
DefinedFormatTags == {1, 2, 3, 16, 17, 18, 19, 21, 22, 24, 26, 46, 47, 240}

\* C6: VertexAttributeFormat::from(tag) returns, for each of the 14 defined
\* tags, the variant whose discriminant is tag, and fails with the
\* unrecognized-tag error carrying tag for every other value.
C6_FormatLeftInverse ==
    fmt # NotCalled =>
        /\ attr.format_id \in DefinedFormatTags <=> fmt.kind = "Ok"
        /\ fmt.kind = "Ok" =>
              /\ fmt.value \in FormatVariants
              /\ VertexAttributeFormat[fmt.value] = attr.format_id
        /\ attr.format_id \notin DefinedFormatTags =>
              fmt = Panic(<<"Unknown storage type", attr.format_id>>)

\* Witness of C6: tag 0x2E has been classified as Short4ToFloat4B.
C6_Witness ==
    /\ attr.format_id = 46
    /\ fmt = Ok("Short4ToFloat4B")

\* The semantic table: 0 Position, 1 BoneWeights, 2 BoneIndices, 3 Normal,
\* 5 UV, 6 Tangent, 7 Bitangent, 0xA VertexColor.
SemanticTable ==
    [ t \in {0, 1, 2, 3, 5, 6, 7, 10} |->
        CASE t = 0 -> "Position" [] t = 1 -> "BoneWeights"
          [] t = 2 -> "BoneIndices" [] t = 3 -> "Normal" [] t = 5 -> "UV"
          [] t = 6 -> "Tangent" [] t = 7 -> "Bitangent"
          [] t = 10 -> "VertexColor" ]

\* C7: VertexAttributeSemantic::from(tag) follows the semantic table and, for
\* every other tag (the reserved 4, 8 and 9 among them), fails with the
\* unrecognized-tag error instead of returning a variant.
C7_SemanticTable ==
    sem # NotCalled =>
        IF attr.semantic_id \in DOMAIN SemanticTable
        THEN sem = Ok(SemanticTable[attr.semantic_id])
        ELSE sem = Panic(<<"Unknown member type", attr.semantic_id>>)

\* Witness of C7: the reserved tag 4 has been refused.
C7_Witness ==
    /\ attr.semantic_id = 4
    /\ sem.kind = "Panic"

\* The byte width of one element of each format, from the format table.
FormatTableWidth ==
    [ Float2 |-> 8, Float3 |-> 12, Float4 |-> 16,
      Byte4A |-> 4, Byte4B |-> 4, Byte4C |-> 4, Byte4E |-> 4,
      Short2ToFloat2 |-> 4,
      ShortBoneIndices |-> 8, Short4ToFloat4A |-> 8, Short4ToFloat4B |-> 8,
      UV |-> 8, UVPair |-> 16 ]

\* Both lookups have returned a number for the classified format.
GeometryKnown == geom.datum_size.kind = "Ok" /\ geom.dimensions.kind = "Ok"
ElementWidth == geom.datum_size.value * geom.dimensions.value

\* C8 as stated: for every format but EdgeCompressed, datum_size() *
\* dimensions() is the width in the format table and, where the format has an
\* accessor variant, the size of the element shape that variant decodes.
C8_Original ==
    /\ (fmt.kind = "Ok" /\ fmt.value # "EdgeCompressed") =>
          /\ geom.datum_size.kind \in {"NotCalled", "Ok"}
          /\ geom.dimensions.kind \in {"NotCalled", "Ok"}
    /\ GeometryKnown =>
          /\ ElementWidth = FormatTableWidth[fmt.value]
          /\ fmt.value \in DOMAIN VertexAttributeAccessor =>
                ElementWidth = AccessorElementSize(fmt.value)

\* C8 amended: for every format but EdgeCompressed, datum_size() *
\* dimensions() is the width in the format table; where the format has an
\* accessor variant other than UVPair it is also the size of the element
\* shape that variant decodes; UVPair's accessor decodes an 8-byte [f32; 2],
\* the first two of the format's four components.
C8_ElementWidth ==
    /\ (fmt.kind = "Ok" /\ fmt.value # "EdgeCompressed") =>
          /\ geom.datum_size.kind \in {"NotCalled", "Ok"}
          /\ geom.dimensions.kind \in {"NotCalled", "Ok"}
    /\ GeometryKnown =>
          /\ ElementWidth = FormatTableWidth[fmt.value]
          /\ (fmt.value \in DOMAIN VertexAttributeAccessor /\ fmt.value # "UVPair") =>
                ElementWidth = AccessorElementSize(fmt.value)
          /\ fmt.value = "UVPair" =>
                /\ AccessorElementSize("UVPair") = 8
                /\ AccessorElementSize("UVPair") = geom.datum_size.value * 2

\* Witness of C8: both lookups have answered for Short2ToFloat2.
C8_Witness ==
    /\ fmt = Ok("Short2ToFloat2")
    /\ GeometryKnown

\* C9: the tag 0xF0 classifies as EdgeCompressed, datum_size() and
\* dimensions() on it fail without returning a number, and that failure
\* differs from the unrecognized-tag failure of from().
C9_Unsupported ==
    /\ (attr.format_id = 240 /\ fmt # NotCalled) => fmt = Ok("EdgeCompressed")
    /\ fmt = Ok("EdgeCompressed") =>
          /\ geom.datum_size \in {NotCalled, Panic("not implemented")}
          /\ geom.dimensions \in {NotCalled, Panic("not implemented")}
    /\ \A g \in {geom.datum_size, geom.dimensions} :
          g.kind = "Panic" =>
              /\ fmt = Ok("EdgeCompressed")
              /\ \A tag \in 0..MaxFormatTag : FormatFrom(tag) # g

\* Witness of C9: both lookups have failed on the classified EdgeCompressed.
C9_Witness ==
    /\ attr.format_id = 240
    /\ fmt = Ok("EdgeCompressed")
    /\ geom.datum_size.kind = "Panic"
    /\ geom.dimensions.kind = "Panic"

====
